---- MODULE Spec2Model ----
(***************************************************************************)
(* Model of isign's code-signature re-signing engine (isign/codesig.py).   *)
(*                                                                         *)
(* A Codesig wraps the parsed code-signature superblob of a Mach-O binary. *)
(* resign(bundle, signer) mutates the parsed tree in five passes and       *)
(* re-encodes it.  The model keeps the parsed tree as nested records with  *)
(* the field names of the source, and represents every byte string as a   *)
(* record [len, toks]: `len` is its length in bytes, `toks` the sequence   *)
(* of values written into it (an injective rendering of its content).     *)
(* Character strings are tuples of character codes.                       *)
(***************************************************************************)
EXTENDS Integers, Sequences, FiniteSets, TLC

VARIABLES construct,   \* Codesig.construct: the parsed (and mutated) superblob
          parsed,      \* the tree as Codesig.__init__ parsed it (never changes)
          signer,      \* the signer collaborator
          bundle,      \* the bundle / signable collaborator
          pc,          \* position inside Codesig.resign
          err,         \* exception that aborted resign: [type, arg]
          failed,      \* the pass that raised it ("" if none)
          hash_calls,  \* log of CodeDirectorySlot.get_hash invocations
          sign_calls   \* log of signer.sign invocations

vars == <<construct, parsed, signer, bundle, pc, err, failed, hash_calls,
          sign_calls>>

-----------------------------------------------------------------------------
(* Bounds of the model *)

MaxCodeSlots == 1      \* code-page slots per code directory: 1..MaxCodeSlots
MaxReqEntries == 2     \* entries of the Requirements superblob: 0..MaxReqEntries
MaxGap == 4            \* slack bytes between the top-level index and blob 0

-----------------------------------------------------------------------------
(* Constants of the binary format *)

HeaderSize == 8             \* magic + length of every blob
SHA1_HASHTYPE == 1
SHA256_HASHTYPE == 2
SupportedHashTypes == {SHA1_HASHTYPE, SHA256_HASHTYPE}

NoOffset == 0 - 1000000     \* cd.data.teamIDOffset is None
NoCount == 0 - 1            \* the blob container has no attribute `count`

Max(S) == CHOOSE m \in S : \A x \in S : x <= m
Min2(a, b) == IF a <= b THEN a ELSE b

RECURSIVE Flatten(_)
Flatten(ss) == IF ss = <<>> THEN <<>> ELSE Head(ss) \o Flatten(Tail(ss))

RECURSIVE SumSeq(_)
SumSeq(s) == IF s = <<>> THEN 0 ELSE Head(s) + SumSeq(Tail(s))

\* An opaque byte string of n bytes whose content is identified by id.
Opaque(id, n) == [len |-> n, toks |-> <<id, n>>]

\* bundle.entitlements is None
NoEntitlements == [len |-> 0 - 1, toks |-> <<>>]

-----------------------------------------------------------------------------
(* The codec (macho_cs): how parsed structures are encoded *)

MagicCode(magic) ==
    CASE magic = "CSMAGIC_REQUIREMENT"        -> 3072    \* 0xfade0c00
      [] magic = "CSMAGIC_REQUIREMENTS"       -> 3073    \* 0xfade0c01
      [] magic = "CSMAGIC_CODEDIRECTORY"      -> 3074    \* 0xfade0c02
      [] magic = "CSMAGIC_ENTITLEMENT"        -> 29041   \* 0xfade7171
      [] magic = "CSMAGIC_BLOBWRAPPER"        -> 2817    \* 0xfade0b01
      [] magic = "CSMAGIC_EMBEDDED_SIGNATURE" -> 3264    \* 0xfade0cc0

\* macho_cs.Blob_.build(blob): magic, declared length, then blob.bytes.  The
\* parsed payload blob.data is not consulted.  Writing fails when blob.bytes
\* is not exactly blob.length - 8 bytes long.
BlobBuildOk(blob) == blob.length - HeaderSize = blob.bytes.len

BlobBuild(blob) ==
    [len  |-> HeaderSize + blob.bytes.len,
     toks |-> <<MagicCode(blob.magic), blob.length>> \o blob.bytes.toks]

\* Length-prefixed string of a requirement expression, padded to 4 bytes.
Pad4(n) == (4 - (n % 4)) % 4

DataBuild(lit) ==
    [len  |-> 4 + lit.length + Pad4(lit.length),
     toks |-> <<lit.length>> \o lit.data]

\* macho_cs.Requirement.build(data): kind, then the expression tree.  Of the
\* tree the model keeps the two literals the patcher addresses (each may be
\* missing from the tree) and the size of all other nodes (`fixed`).
RequirementBuild(data) ==
    LET ident == IF data.hasIdent THEN DataBuild(data.identLit)
                 ELSE [len |-> 0, toks |-> <<>>]
        cn    == IF data.hasCN THEN DataBuild(data.cnLit)
                 ELSE [len |-> 0, toks |-> <<>>]
    IN [len  |-> 4 + data.fixed + ident.len + cn.len,
        toks |-> <<1, data.fixed, ident.len, cn.len>> \o ident.toks \o cn.toks]

\* macho_cs.SuperBlob.build / macho_cs.Entitlements.build: a count, the index
\* of (type, offset) pairs, and each sub-blob written at its offset (offsets
\* count from the start of the owning blob's header).
IndexBuildOk(data) ==
    /\ Len(data.BlobIndex) = data.count
    /\ \A i \in DOMAIN data.BlobIndex : BlobBuildOk(data.BlobIndex[i].blob)

IndexBuild(data) ==
    LET n == Len(data.BlobIndex)
        end(i) == data.BlobIndex[i].offset - HeaderSize
                    + BlobBuild(data.BlobIndex[i].blob).len
        entry(i) == <<data.BlobIndex[i].type, data.BlobIndex[i].offset>>
                      \o BlobBuild(data.BlobIndex[i].blob).toks
    IN [len  |-> Max({4 + 8 * n} \cup {end(i) : i \in 1..n}),
        toks |-> <<data.count>> \o Flatten([i \in 1..n |-> entry(i)])]

\* Size of the fixed fields of a code directory, header included.
CDFixedEnd(version) ==
    HeaderSize + 36 + (IF version >= 131328 THEN 4 ELSE 0)    \* 0x20100
                    + (IF version >= 131584 THEN 4 ELSE 0)    \* 0x20200

CDHasTeam(version) == version >= 131584

\* macho_cs.CodeDirectory.build(data): the fixed fields, then ident, teamID
\* and the hash array each written at its recorded offset, the hash array
\* last.  Every hash must be exactly hashSize bytes.
CodeDirectoryBuildOk(data) ==
    /\ Len(data.hashes) = data.nSpecialSlots + data.nCodeSlots
    /\ \A i \in DOMAIN data.hashes : data.hashes[i].size = data.hashSize

HashToks(h) == <<h.alg, h.size, Len(h.pre)>> \o h.pre

CodeDirectoryBuild(data) ==
    LET hashStart == data.hashOffset - data.hashSize * data.nSpecialSlots
        hashEnd   == data.hashOffset + data.hashSize * data.nCodeSlots
        identEnd  == data.identOffset + Len(data.ident) + 1
        teamEnd   == IF CDHasTeam(data.version)
                     THEN data.teamIDOffset + Len(data.teamID) + 1
                     ELSE 0
        \* the part of teamID the hash array does not overwrite
        room      == hashStart - data.teamIDOffset
        teamKept  == IF ~CDHasTeam(data.version) THEN <<>>
                     ELSE IF room <= 0 THEN <<>>
                     ELSE SubSeq(data.teamID, 1, Min2(Len(data.teamID), room))
    IN [len  |-> Max({CDFixedEnd(data.version), identEnd, teamEnd, hashEnd})
                   - HeaderSize,
        toks |-> <<data.version, data.hashOffset, data.identOffset,
                   data.nSpecialSlots, data.nCodeSlots, data.hashSize,
                   data.hashType, data.teamIDOffset,
                   Len(data.ident), Len(teamKept)>>
                 \o data.ident \o teamKept
                 \o Flatten([i \in DOMAIN data.hashes |-> HashToks(data.hashes[i])])]

\* hashlib.sha1 / hashlib.sha256: a digest is identified by its preimage.
Digest(hash_type, bytes) ==
    [alg |-> hash_type,
     size |-> IF hash_type = SHA1_HASHTYPE THEN 20 ELSE 32,
     pre |-> bytes.toks]

\* '\x00' * n
Zeros(n) == [alg |-> 0, size |-> n, pre |-> <<>>]

-----------------------------------------------------------------------------
(* Exceptions *)

NoErr == [type |-> "", arg |-> 0]
Raise(type, arg) == [type |-> type, arg |-> arg]

-----------------------------------------------------------------------------
(* Codesig: access to the top-level blobs *)

BlobAt(c, pos) == c.data.BlobIndex[pos].blob
SetBlobAt(c, pos, blob) == [c EXCEPT !.data.BlobIndex[pos].blob = blob]

\* Codesig.get_blobs: the top-level blobs with that magic, in index order
\* (returned as their positions in the index, since blobs are references).
get_blobs(c, magic) ==
    SelectSeq([i \in 1..Len(c.data.BlobIndex) |-> i],
              LAMBDA i : BlobAt(c, i).magic = magic)

\* get_blob picking the first of several blobs
get_blob_First(c, magic) ==
    LET blobs == get_blobs(c, magic)
    IN IF blobs = <<>>
       THEN [err |-> Raise("KeyError", 0), pos |-> 0]
       ELSE [err |-> NoErr, pos |-> blobs[1]]

\* Codesig.get_blob
get_blob(c, magic) ==
    LET blobs == get_blobs(c, magic)
    IN IF blobs = <<>>
       THEN [err |-> Raise("KeyError", 0), pos |-> 0]
       ELSE IF Len(blobs) > 1
       THEN [err |-> Raise("MultipleEntriesException", Len(blobs)), pos |-> 0]
       ELSE [err |-> NoErr, pos |-> blobs[1]]

\* Codesig.get_blob_data
get_blob_data(c, magic) ==
    LET r == get_blob(c, magic)
    IN IF r.err # NoErr THEN [err |-> r.err, bytes |-> Opaque(0, 0)]
       ELSE IF ~BlobBuildOk(BlobAt(c, r.pos))
       THEN [err |-> Raise("FieldError", 0), bytes |-> Opaque(0, 0)]
       ELSE [err |-> NoErr, bytes |-> BlobBuild(BlobAt(c, r.pos))]

\* Codesig.get_codedirectories
get_codedirectories(c) == get_blobs(c, "CSMAGIC_CODEDIRECTORY")

-----------------------------------------------------------------------------
(* The five special slots *)

SlotClasses == {"EntitlementsSlot", "ApplicationSlot", "ResourceDirSlot",
                "RequirementsSlot", "InfoSlot"}

\* the class attribute `offset` of each slot class
SlotOffset(slot) ==
    CASE slot = "EntitlementsSlot" -> 0 - 5
      [] slot = "ApplicationSlot"  -> 0 - 4
      [] slot = "ResourceDirSlot"  -> 0 - 3
      [] slot = "RequirementsSlot" -> 0 - 2
      [] slot = "InfoSlot"         -> 0 - 1

\* get_contents of the slot classes that define it
get_contents(slot, c, b) ==
    CASE slot = "EntitlementsSlot" -> get_blob_data(c, "CSMAGIC_ENTITLEMENT")
      [] slot = "RequirementsSlot" -> get_blob_data(c, "CSMAGIC_REQUIREMENTS")
      [] slot = "ResourceDirSlot"  -> [err |-> NoErr, bytes |-> b.seal]
      [] slot = "InfoSlot"         -> [err |-> NoErr, bytes |-> b.info]

\* CodeDirectorySlot.get_hash
CodeDirectorySlot_get_hash(slot, hash_type, c, b) ==
    IF hash_type \in SupportedHashTypes
    THEN LET contents == get_contents(slot, c, b)
         IN IF contents.err # NoErr
            THEN [err |-> contents.err, digest |-> Zeros(0)]
            ELSE [err |-> NoErr, digest |-> Digest(hash_type, contents.bytes)]
    ELSE [err |-> Raise("ValueError", hash_type), digest |-> Zeros(0)]

\* ApplicationSlot.get_hash (overrides the base class)
ApplicationSlot_get_hash(hash_type) ==
    [err |-> NoErr,
     digest |-> Zeros(IF hash_type = SHA1_HASHTYPE THEN 20 ELSE 32)]

\* slot.get_hash, dispatched on the slot's class
get_hash(slot, hash_type, c, b) ==
    IF slot = "ApplicationSlot"
    THEN ApplicationSlot_get_hash(hash_type)
    ELSE CodeDirectorySlot_get_hash(slot, hash_type, c, b)

\* Codesig.get_codedirectory_hash_index
get_codedirectory_hash_index(codedirectory, slot) ==
    SlotOffset(slot) + codedirectory.data.nSpecialSlots

\* has_codedirectory_slot taking index 0 for absent
has_codedirectory_slot_Strict(codedirectory, slot) ==
    get_codedirectory_hash_index(codedirectory, slot) > 0

\* Codesig.has_codedirectory_slot
has_codedirectory_slot(codedirectory, slot) ==
    get_codedirectory_hash_index(codedirectory, slot) >= 0

\* signable.should_fill_slot(codesig, slot)
should_fill_slot(b, slot) == slot \in b.fill_slots

-----------------------------------------------------------------------------
(* The passes of resign.  Each returns the new tree and the exception, if  *)
(* any, that ended it.                                                     *)

\* Codesig.set_entitlements
set_entitlements(c, entitlements_bytes) ==
    LET r == get_blob(c, "CSMAGIC_ENTITLEMENT")
    IN IF r.err.type = "KeyError"
       THEN [c |-> c, err |-> NoErr]                 \* "no entitlements found"
       ELSE IF r.err # NoErr
       THEN [c |-> c, err |-> r.err]
       ELSE [c |-> SetBlobAt(c, r.pos,
                     [BlobAt(c, r.pos) EXCEPT
                        !.bytes = entitlements_bytes,
                        !.length = entitlements_bytes.len + HeaderSize]),
             err |-> NoErr]

\* set_requirements, lines 140-147: patch the bundle-identifier literal
PatchBundleId(data, changed_bundle_id) ==
    IF changed_bundle_id # <<>> /\ data.hasIdent
    THEN [data EXCEPT !.identLit = [data |-> changed_bundle_id,
                                    length |-> Len(changed_bundle_id)]]
    ELSE data                                        \* "could not set bundle id"

\* set_requirements, lines 155-173: a signer CN rule was found
PatchCommonName(requirements, data0, signer_cn) ==
    LET req_blob_0 == requirements.data.BlobIndex[1].blob
        req_blob_0_original_length == req_blob_0.length
        data1  == [data0 EXCEPT !.cnLit = [data |-> signer_cn,
                                           length |-> Len(signer_cn)]]
        bytes0 == RequirementBuild(data1)
        blob0  == [req_blob_0 EXCEPT !.data = data1,
                                     !.bytes = bytes0,
                                     !.length = bytes0.len + HeaderSize]
        offset_delta == blob0.length - req_blob_0_original_length
        index  == [i \in DOMAIN requirements.data.BlobIndex |->
                     IF i = 1
                     THEN [requirements.data.BlobIndex[i] EXCEPT !.blob = blob0]
                     ELSE [requirements.data.BlobIndex[i] EXCEPT
                             !.offset = @ + offset_delta]]
        rdata  == [requirements.data EXCEPT !.BlobIndex = index]
    IN IF ~IndexBuildOk(rdata)
       THEN [blob |-> [requirements EXCEPT !.data = rdata],
             err |-> Raise("FieldError", 0)]
       ELSE [blob |-> [requirements EXCEPT
                         !.data = rdata,
                         !.bytes = IndexBuild(rdata),
                         !.length = IndexBuild(rdata).len + HeaderSize],
             err |-> NoErr]

\* Codesig.set_requirements
set_requirements(c, s, b) ==
    LET r == get_blob(c, "CSMAGIC_REQUIREMENTS")
    IN IF r.err # NoErr THEN [c |-> c, err |-> r.err]
       ELSE
       LET requirements == BlobAt(c, r.pos)
       IN IF s.is_adhoc
          THEN \* "Ad hoc -- using empty requirement set"
               [c |-> SetBlobAt(c, r.pos, [requirements EXCEPT !.count = 0]),
                err |-> NoErr]
          ELSE IF requirements.data.BlobIndex = <<>>
          THEN [c |-> c, err |-> Raise("IndexError", 0)]   \* BlobIndex[0]
          ELSE
          LET data0 == PatchBundleId(requirements.data.BlobIndex[1].blob.data,
                                     b.changed_bundle_id)
          IN IF ~data0.hasCN
             THEN \* "no signer CN rule found in requirements"
                  [c |-> SetBlobAt(c, r.pos,
                           [requirements EXCEPT
                              !.data.BlobIndex[1].blob.data = data0]),
                   err |-> NoErr]
             ELSE LET p == PatchCommonName(requirements, data0, s.common_name)
                  IN [c |-> SetBlobAt(c, r.pos, p.blob), err |-> p.err]

\* Codesig.fill_codedirectory_slot; st = [c, err, calls], pos the position
\* of the code directory in the top-level index
fill_codedirectory_slot(st, pos, slot, b) ==
    IF should_fill_slot(b, slot)
    THEN LET codedirectory == BlobAt(st.c, pos)
             index == get_codedirectory_hash_index(codedirectory, slot)
             h == get_hash(slot, codedirectory.data.hashType, st.c, b)
             call == [slot |-> slot, pos |-> pos,
                      hash_type |-> codedirectory.data.hashType,
                      raised |-> h.err.type]
         IN IF h.err # NoErr
            THEN [c |-> st.c, err |-> h.err, calls |-> Append(st.calls, call)]
            ELSE [c |-> SetBlobAt(st.c, pos,
                          [codedirectory EXCEPT
                             !.data.hashes[index + 1] = h.digest]),
                  err |-> NoErr,
                  calls |-> Append(st.calls, call)]
    ELSE st

\* the order in which set_codedirectory visits the slots of one directory
FillOrder == <<"EntitlementsSlot", "ResourceDirSlot", "RequirementsSlot",
               "ApplicationSlot", "InfoSlot">>

\* the condition of each `if` of lines 212-225
SlotAttempted(codedirectory, slot, s) ==
    /\ has_codedirectory_slot(codedirectory, slot)
    /\ (slot = "EntitlementsSlot" => ~s.is_adhoc)

RECURSIVE FillSlots(_, _, _, _, _)
FillSlots(st, pos, slots, s, b) ==
    IF slots = <<>> \/ st.err # NoErr THEN st
    ELSE FillSlots(IF SlotAttempted(BlobAt(st.c, pos), Head(slots), s)
                   THEN fill_codedirectory_slot(st, pos, Head(slots), b)
                   ELSE st,
                   pos, Tail(slots), s, b)

\* set_codedirectory, first loop (lines 211-225)
RECURSIVE FillDirectories(_, _, _, _)
FillDirectories(st, cds, s, b) ==
    IF cds = <<>> \/ st.err # NoErr THEN st
    ELSE FillDirectories(FillSlots(st, Head(cds), FillOrder, s, b),
                         Tail(cds), s, b)

\* the loop body without the shift of teamIDOffset
RebuildDirectory_NoTeamShift(cd, s, b) ==
    LET changed_bundle_id == b.changed_bundle_id
        offset_change == Len(changed_bundle_id) - Len(cd.data.ident)
        cd1 == [cd EXCEPT !.data.teamID = s.team_id]
        cd2 == IF changed_bundle_id # <<>>
               THEN [cd1 EXCEPT
                       !.data.ident = changed_bundle_id,
                       !.data.hashOffset = @ + offset_change,
                       !.length = @ + offset_change]
               ELSE cd1
    IN IF ~CodeDirectoryBuildOk(cd2.data)
       THEN [blob |-> cd2, err |-> Raise("FieldError", 0)]
       ELSE [blob |-> [cd2 EXCEPT !.bytes = CodeDirectoryBuild(cd2.data)],
             err |-> NoErr]

\* set_codedirectory, body of the second loop (lines 228-241)
RebuildDirectory(cd, s, b) ==
    LET changed_bundle_id == b.changed_bundle_id
        offset_change == Len(changed_bundle_id) - Len(cd.data.ident)
        cd1 == [cd EXCEPT !.data.teamID = s.team_id]
        cd2 == IF changed_bundle_id # <<>>
               THEN [cd1 EXCEPT
                       !.data.ident = changed_bundle_id,
                       !.data.hashOffset = @ + offset_change,
                       !.data.teamIDOffset = IF @ = NoOffset
                                             THEN offset_change
                                             ELSE @ + offset_change,
                       !.length = @ + offset_change]
               ELSE cd1
    IN IF ~CodeDirectoryBuildOk(cd2.data)
       THEN [blob |-> cd2, err |-> Raise("FieldError", 0)]
       ELSE [blob |-> [cd2 EXCEPT !.bytes = CodeDirectoryBuild(cd2.data)],
             err |-> NoErr]

RECURSIVE RebuildDirectories(_, _, _, _)
RebuildDirectories(st, cds, s, b) ==
    IF cds = <<>> \/ st.err # NoErr THEN st
    ELSE LET r == RebuildDirectory(BlobAt(st.c, Head(cds)), s, b)
         IN RebuildDirectories([st EXCEPT
                                  !.c = SetBlobAt(st.c, Head(cds), r.blob),
                                  !.err = r.err],
                               Tail(cds), s, b)

\* Codesig.set_codedirectory
set_codedirectory(c, s, b) ==
    LET st1 == FillDirectories([c |-> c, err |-> NoErr, calls |-> <<>>],
                               get_codedirectories(c), s, b)
    IN RebuildDirectories(st1, get_codedirectories(st1.c), s, b)

\* get_codedirectory_hashes digesting the directories as they were parsed,
\* as if the signature were computed before set_codedirectory rebuilt them
get_codedirectory_hashes_Stale(c) ==
    LET cds == get_codedirectories(c)
    IN [k \in 1..Len(cds) |->
          [sha1     |-> Digest(SHA1_HASHTYPE, BlobBuild(BlobAt(parsed, cds[k]))),
           sha256   |-> Digest(SHA256_HASHTYPE, BlobBuild(BlobAt(parsed, cds[k]))),
           hashType |-> BlobAt(c, cds[k]).data.hashType]]

\* Codesig.get_codedirectory_hashes
get_codedirectory_hashes(c) ==
    LET cds == get_codedirectories(c)
    IN [k \in 1..Len(cds) |->
          [sha1     |-> Digest(SHA1_HASHTYPE, BlobBuild(BlobAt(c, cds[k]))),
           sha256   |-> Digest(SHA256_HASHTYPE, BlobBuild(BlobAt(c, cds[k]))),
           hashType |-> BlobAt(c, cds[k]).data.hashType]]

\* Codesig.set_signature; sig is what signer.sign returns
set_signature(c, sig) ==
    LET r == get_blob(c, "CSMAGIC_BLOBWRAPPER")
        cds == get_codedirectories(c)
    IN IF r.err # NoErr
       THEN [c |-> c, err |-> r.err, calls |-> <<>>]
       ELSE IF \E k \in 1..Len(cds) : ~BlobBuildOk(BlobAt(c, cds[k]))
       THEN [c |-> c, err |-> Raise("FieldError", 0), calls |-> <<>>]
       ELSE LET sigwrapper == BlobAt(c, r.pos)
                oldsig == sigwrapper.bytes
            IN [c |-> SetBlobAt(c, r.pos,
                        [sigwrapper EXCEPT !.data = sig,
                                           !.length = sig.len + HeaderSize,
                                           !.bytes = sig]),
                err |-> NoErr,
                calls |-> <<[oldsig |-> oldsig,
                             hashes |-> get_codedirectory_hashes(c)]>>]

\* the loop advancing by the payload size of each blob, header forgotten
RECURSIVE CascadeOffsets_PayloadOnly(_, _, _)
CascadeOffsets_PayloadOnly(st, i, offset) ==
    IF i > Len(st.c.data.BlobIndex) \/ st.err # NoErr THEN st
    ELSE LET c1 == [st.c EXCEPT !.data.BlobIndex[i].offset = offset]
         IN IF ~BlobBuildOk(BlobAt(c1, i))
            THEN [c |-> c1, err |-> Raise("FieldError", 0)]
            ELSE CascadeOffsets_PayloadOnly([c |-> c1, err |-> NoErr], i + 1,
                                            offset + BlobAt(c1, i).bytes.len)

\* update_offsets, the loop of lines 286-288 from entry i on
RECURSIVE CascadeOffsets(_, _, _)
CascadeOffsets(st, i, offset) ==
    IF i > Len(st.c.data.BlobIndex) \/ st.err # NoErr THEN st
    ELSE LET c1 == [st.c EXCEPT !.data.BlobIndex[i].offset = offset]
         IN IF ~BlobBuildOk(BlobAt(c1, i))
            THEN [c |-> c1, err |-> Raise("FieldError", 0)]
            ELSE CascadeOffsets([c |-> c1, err |-> NoErr], i + 1,
                                offset + BlobBuild(BlobAt(c1, i)).len)

\* update_offsets declaring the payload size alone as the superblob length
update_offsets_NoHeader(c) ==
    IF c.data.BlobIndex = <<>>
    THEN [c |-> c, err |-> Raise("IndexError", 0)]
    ELSE LET st == CascadeOffsets([c |-> c, err |-> NoErr], 1,
                                  c.data.BlobIndex[1].offset)
         IN IF st.err # NoErr THEN st
            ELSE IF ~IndexBuildOk(st.c.data)
            THEN [c |-> st.c, err |-> Raise("FieldError", 0)]
            ELSE [c |-> [st.c EXCEPT
                           !.length = IndexBuild(st.c.data).len,
                           !.bytes = IndexBuild(st.c.data)],
                  err |-> NoErr]

\* Codesig.update_offsets
update_offsets(c) ==
    IF c.data.BlobIndex = <<>>
    THEN [c |-> c, err |-> Raise("IndexError", 0)]
    ELSE LET st == CascadeOffsets([c |-> c, err |-> NoErr], 1,
                                  c.data.BlobIndex[1].offset)
         IN IF st.err # NoErr THEN st
            ELSE IF ~IndexBuildOk(st.c.data)
            THEN [c |-> st.c, err |-> Raise("FieldError", 0)]
            ELSE [c |-> [st.c EXCEPT
                           !.length = IndexBuild(st.c.data).len + HeaderSize,
                           !.bytes = IndexBuild(st.c.data)],
                  err |-> NoErr]

-----------------------------------------------------------------------------
(* Inputs: what Codesig.__init__ parsed, and the two collaborators *)

OldIdent == <<99, 111, 109, 46, 97>>                \* "com.a"
OldTeam  == <<84, 69, 65, 77, 48>>                  \* "TEAM0"
OldCN    == <<79, 108, 100, 32, 67, 78>>            \* "Old CN"

\* signable.get_changed_bundle_id(): None (<<>>), "com.a2", "c.a"
ChangedBundleIds == {<<>>, <<99, 111, 109, 46, 97, 50>>, <<99, 46, 97>>}
\* what signer.sign may return
Signatures == {Opaque(801, 30), Opaque(802, 37)}
\* bundle.entitlements
EntitlementsInputs == {NoEntitlements, Opaque(701, 44)}
\* which slot classes signable.should_fill_slot approves
FillPolicies == {SlotClasses,
                 {"RequirementsSlot", "InfoSlot"},
                 {"ApplicationSlot"}}

OldSeal == Opaque(600, 50)     \* resource seal the input was signed over
OldInfo == Opaque(601, 60)     \* Info.plist the input was signed over
NewSeal == Opaque(610, 52)     \* contents of bundle.seal_path
NewInfo == Opaque(611, 64)     \* contents of bundle.info_path

HashSizeOf(hash_type) == IF hash_type = SHA256_HASHTYPE THEN 32 ELSE 20

\* A well-formed blob: the declared length covers header and payload.
MkBlob(magic, data, bytes) ==
    [magic |-> magic, length |-> bytes.len + HeaderSize,
     data |-> data, bytes |-> bytes]

\* A parsed requirement; `fixed` grows with the certificate rule.
MkRequirementData(hasIdent, hasCN) ==
    [hasIdent |-> hasIdent,
     identLit |-> IF hasIdent THEN [data |-> OldIdent, length |-> Len(OldIdent)]
                  ELSE [data |-> <<>>, length |-> 0],
     hasCN    |-> hasCN,
     cnLit    |-> IF hasCN THEN [data |-> OldCN, length |-> Len(OldCN)]
                  ELSE [data |-> <<>>, length |-> 0],
     fixed    |-> (IF hasIdent THEN 8 ELSE 4) + (IF hasCN THEN 60 ELSE 0)]

MkRequirement(hasIdent, hasCN) ==
    MkBlob("CSMAGIC_REQUIREMENT", MkRequirementData(hasIdent, hasCN),
           RequirementBuild(MkRequirementData(hasIdent, hasCN)))

\* Index entries laid out back to back from `base`.
RECURSIVE LayOut(_, _, _)
LayOut(types, blobs, base) ==
    IF blobs = <<>> THEN <<>>
    ELSE <<[type |-> Head(types), offset |-> base, blob |-> Head(blobs)]>>
           \o LayOut(Tail(types), Tail(blobs),
                     base + BlobBuild(Head(blobs)).len)

MkIndex(types, blobs, gap) ==
    [count |-> Len(blobs),
     BlobIndex |-> LayOut(types, blobs, HeaderSize + 4 + 8 * Len(blobs) + gap)]

\* The Requirements superblob: entry 0 is the designated requirement (type 3)
MkRequirements(n, hasIdent, hasCN) ==
    LET data == MkIndex([i \in 1..n |-> IF i = 1 THEN 3 ELSE i - 1],
                        [i \in 1..n |-> IF i = 1
                                        THEN MkRequirement(hasIdent, hasCN)
                                        ELSE MkRequirement(FALSE, FALSE)],
                        0)
    IN [magic |-> "CSMAGIC_REQUIREMENTS",
        length |-> IndexBuild(data).len + HeaderSize,
        data |-> data, bytes |-> IndexBuild(data), count |-> NoCount]

MkEntitlement == MkBlob("CSMAGIC_ENTITLEMENT", Opaque(700, 40), Opaque(700, 40))
MkWrapper     == MkBlob("CSMAGIC_BLOBWRAPPER", Opaque(800, 28), Opaque(800, 28))

\* The digest the input carries in special slot `slot`
OldSlotHash(slot, hash_type, req, hasEnt) ==
    LET h(bytes) == [Digest(hash_type, bytes) EXCEPT !.size = HashSizeOf(hash_type)]
    IN CASE slot = "EntitlementsSlot" ->
              IF hasEnt THEN h(BlobBuild(MkEntitlement))
              ELSE Zeros(HashSizeOf(hash_type))
         [] slot = "ApplicationSlot"  -> Zeros(HashSizeOf(hash_type))
         [] slot = "ResourceDirSlot"  -> h(OldSeal)
         [] slot = "RequirementsSlot" -> h(BlobBuild(req))
         [] slot = "InfoSlot"         -> h(OldInfo)

SlotAtOffset(o) == CHOOSE slot \in SlotClasses : SlotOffset(slot) = o

\* A parsed code directory laid out as fixed fields, ident, teamID, hashes
MkCodeDirectory(hash_type, version, nSpecialSlots, nCodeSlots, req, hasEnt) ==
    LET hashSize == HashSizeOf(hash_type)
        identOffset == CDFixedEnd(version)
        identEnd == identOffset + Len(OldIdent) + 1
        hashStart == IF CDHasTeam(version) THEN identEnd + Len(OldTeam) + 1
                     ELSE identEnd
        data == [version |-> version,
                 hashOffset |-> hashStart + hashSize * nSpecialSlots,
                 identOffset |-> identOffset,
                 nSpecialSlots |-> nSpecialSlots,
                 nCodeSlots |-> nCodeSlots,
                 hashSize |-> hashSize,
                 hashType |-> hash_type,
                 ident |-> OldIdent,
                 teamIDOffset |-> IF CDHasTeam(version) THEN identEnd
                                  ELSE NoOffset,
                 teamID |-> IF CDHasTeam(version) THEN OldTeam ELSE <<>>,
                 hashes |-> [i \in 1..(nSpecialSlots + nCodeSlots) |->
                               IF i <= nSpecialSlots
                               THEN OldSlotHash(
                                      SlotAtOffset(i - 1 - nSpecialSlots),
                                      hash_type, req, hasEnt)
                               ELSE [alg |-> hash_type, size |-> hashSize,
                                     pre |-> <<900 + i>>]]]
    IN MkBlob("CSMAGIC_CODEDIRECTORY", data, CodeDirectoryBuild(data))

\* Top-level layouts, by kind of blob.  "CD2" is the alternate (SHA-256)
\* code directory.  The first three are what a signed binary carries; the
\* others lack a singular blob or carry it twice.
UsualShapes == {<<"CD", "REQ", "ENT", "WRAP">>,
                <<"CD", "REQ", "WRAP">>,
                <<"CD", "REQ", "ENT", "CD2", "WRAP">>}
OddShapes == {<<"CD", "ENT", "WRAP">>,
              <<"CD", "REQ", "REQ", "WRAP">>,
              <<"CD", "REQ", "ENT">>,
              <<"CD", "REQ", "WRAP", "WRAP">>,
              <<"CD", "REQ", "ENT", "ENT", "WRAP">>}

\* hash-algorithm tags of the first code directory; 3 is not supported
HashTypes == {SHA1_HASHTYPE, SHA256_HASHTYPE, 3}
\* code-directory versions: 0x20100 (no team id) and 0x20200
Versions == {131328, 131584}
SpecialSlotCounts == {2, 5}

IndexType(kind) ==
    CASE kind = "CD" -> 0 [] kind = "REQ" -> 2 [] kind = "ENT" -> 5
      [] kind = "CD2" -> 4096 [] kind = "WRAP" -> 65536

HasKind(shape, kind) == \E i \in DOMAIN shape : shape[i] = kind

\* What macho_cs.Blob.parse returns for a well-formed signature
MkCodesig(shape, gap, ht, v, ns, nc, reqN, hasIdent, hasCN) ==
    LET req == MkRequirements(reqN, hasIdent, hasCN)
        hasEnt == HasKind(shape, "ENT")
        blobOf(kind) ==
            CASE kind = "CD"   -> MkCodeDirectory(ht, v, ns, nc, req, hasEnt)
              [] kind = "CD2"  -> MkCodeDirectory(SHA256_HASHTYPE, v, ns, nc,
                                                  req, hasEnt)
              [] kind = "REQ"  -> req
              [] kind = "ENT"  -> MkEntitlement
              [] kind = "WRAP" -> MkWrapper
        data == MkIndex([i \in DOMAIN shape |-> IndexType(shape[i])],
                        [i \in DOMAIN shape |-> blobOf(shape[i])], gap)
    IN [magic |-> "CSMAGIC_EMBEDDED_SIGNATURE",
        length |-> IndexBuild(data).len + HeaderSize,
        data |-> data, bytes |-> IndexBuild(data)]

\* a certificate-backed signer has a common name and a team id; the
\* ad-hoc signer has neither certificate nor common name
Signers ==
    {[is_adhoc |-> FALSE, common_name |-> <<78, 101, 119, 32, 67, 78>>,
      team_id |-> <<84, 49>>],
     [is_adhoc |-> FALSE,
      common_name |-> <<78, 101, 119, 32, 67, 78, 32, 67, 111>>,
      team_id |-> <<84, 69, 65, 77, 49, 50, 51>>],
     [is_adhoc |-> TRUE, common_name |-> <<>>, team_id |-> <<>>],
     [is_adhoc |-> TRUE, common_name |-> <<>>,
      team_id |-> <<84, 69, 65, 77, 49, 50, 51>>]}

Bundles ==
    [entitlements : EntitlementsInputs,
     changed_bundle_id : ChangedBundleIds,
     fill_slots : FillPolicies,
     seal : {NewSeal}, info : {NewInfo}]

-----------------------------------------------------------------------------
(* The state machine: Codesig(signable, data).resign(bundle, signer) *)

Init ==
    /\ signer \in Signers
    /\ bundle \in Bundles
    /\ \/ \E shape \in UsualShapes, gap \in {0, MaxGap}, ht \in HashTypes,
             v \in Versions, ns \in SpecialSlotCounts, nc \in 1..MaxCodeSlots,
             n \in 0..MaxReqEntries, hasIdent \in BOOLEAN, hasCN \in BOOLEAN :
            /\ gap # 0 => Len(shape) = 4
            /\ ht \notin SupportedHashTypes => CDHasTeam(v)
            /\ n = 0 => (hasIdent /\ hasCN)
            /\ n > 1 => hasIdent
            /\ parsed = MkCodesig(shape, gap, ht, v, ns, nc, n, hasIdent, hasCN)
       \/ \E shape \in OddShapes :
            parsed = MkCodesig(shape, 0, SHA1_HASHTYPE, 131584, 5, 1, 1,
                               TRUE, TRUE)
    /\ construct = parsed
    /\ pc = "set_entitlements"
    /\ err = NoErr
    /\ failed = ""
    /\ hash_calls = <<>>
    /\ sign_calls = <<>>

\* the effect of one pass on the control state
Step(res, next) ==
    /\ construct' = res.c
    /\ err' = res.err
    /\ failed' = IF res.err = NoErr THEN failed ELSE pc
    /\ pc' = IF res.err = NoErr THEN next ELSE "aborted"

\* resign, lines 302-303
ResignSetEntitlements ==
    /\ pc = "set_entitlements"
    /\ IF bundle.entitlements # NoEntitlements
       THEN Step(set_entitlements(construct, bundle.entitlements),
                 "set_requirements")
       ELSE Step([c |-> construct, err |-> NoErr], "set_requirements")
    /\ UNCHANGED <<parsed, signer, bundle, hash_calls, sign_calls>>

\* resign, line 304
ResignSetRequirements ==
    /\ pc = "set_requirements"
    /\ Step(set_requirements(construct, signer, bundle), "set_codedirectory")
    /\ UNCHANGED <<parsed, signer, bundle, hash_calls, sign_calls>>

\* resign, line 306
ResignSetCodedirectory ==
    /\ pc = "set_codedirectory"
    /\ LET res == set_codedirectory(construct, signer, bundle)
       IN /\ Step(res, "set_signature")
          /\ hash_calls' = hash_calls \o res.calls
    /\ UNCHANGED <<parsed, signer, bundle, sign_calls>>

\* resign, line 307
ResignSetSignature ==
    /\ pc = "set_signature"
    /\ \E sig \in Signatures :
         LET res == set_signature(construct, sig)
         IN /\ Step(res, "update_offsets")
            /\ sign_calls' = sign_calls \o res.calls
    /\ UNCHANGED <<parsed, signer, bundle, hash_calls>>

\* resign, line 308
ResignUpdateOffsets ==
    /\ pc = "update_offsets"
    /\ Step(update_offsets(construct), "done")
    /\ UNCHANGED <<parsed, signer, bundle, hash_calls, sign_calls>>

Next ==
    \/ ResignSetEntitlements
    \/ ResignSetRequirements
    \/ ResignSetCodedirectory
    \/ ResignSetSignature
    \/ ResignUpdateOffsets

Spec == Init /\ [][Next]_vars

-----------------------------------------------------------------------------
(* Vocabulary of the properties *)

Returned == pc = "done"

\* positions of the top-level blobs with a given magic
Positions(c, magic) ==
    {i \in DOMAIN c.data.BlobIndex : c.data.BlobIndex[i].blob.magic = magic}

CDPositions == Positions(construct, "CSMAGIC_CODEDIRECTORY")

\* the (single) Requirements / entitlements / wrapper blob of a tree
TheBlob(c, magic) == c.data.BlobIndex[CHOOSE i \in Positions(c, magic) : TRUE].blob

\* set_codedirectory has returned normally
DirectoriesRebuilt == pc \in {"set_signature", "update_offsets", "done"}

\* set_requirements has returned normally
RequirementsSet == pc \in {"set_codedirectory", "set_signature",
                           "update_offsets", "done"}

LengthMatches(blob) == blob.length = HeaderSize + blob.bytes.len

-----------------------------------------------------------------------------
\* C1: after resign returns normally, every blob of the result declares a
\* length of 8 plus the length of its encoded payload: the outer superblob,
\* every code directory (whose payload is its freshly encoded form), the
\* Requirements blob and each of its entries, the entitlements blob and the
\* signature wrapper.
C1_DeclaredLengths ==
    Returned =>
      /\ LengthMatches(construct)
      /\ construct.bytes.len = IndexBuild(construct.data).len
      /\ \A i \in DOMAIN construct.data.BlobIndex :
           LET blob == construct.data.BlobIndex[i].blob
           IN /\ LengthMatches(blob)
              /\ blob.magic = "CSMAGIC_CODEDIRECTORY" =>
                   blob.length = HeaderSize + CodeDirectoryBuild(blob.data).len
              /\ blob.magic = "CSMAGIC_REQUIREMENTS" =>
                   /\ blob.bytes.len = IndexBuild(blob.data).len
                   /\ \A k \in DOMAIN blob.data.BlobIndex :
                        LengthMatches(blob.data.BlobIndex[k].blob)

\* resign returned for a changed bundle identifier and a team identifier of
\* another length than the stored one, on a directory that stores a team id
C1_Witness ==
    /\ Returned
    /\ bundle.changed_bundle_id # <<>>
    /\ \E i \in CDPositions :
         LET cd == construct.data.BlobIndex[i].blob
         IN /\ CDHasTeam(cd.data.version)
            /\ cd.data.teamID = signer.team_id
            /\ Len(signer.team_id) # Len(OldTeam)
            /\ cd.length # parsed.data.BlobIndex[i].blob.length
    /\ TheBlob(construct, "CSMAGIC_REQUIREMENTS").length
         # TheBlob(parsed, "CSMAGIC_REQUIREMENTS").length
    /\ construct.length # parsed.length

-----------------------------------------------------------------------------
\* sizes of the freshly encoded top-level blobs of c, in index order
EncodedSizes(c) ==
    [i \in DOMAIN c.data.BlobIndex |-> BlobBuild(c.data.BlobIndex[i].blob).len]

\* update_offsets keeps order and tags and assigns the cascading offsets
\* b, b+s0, b+s0+s1, ... where b was the first offset before the call
CascadeLaw(before, after) ==
    LET b == before.data.BlobIndex[1].offset
        s == EncodedSizes(after)
    IN /\ Len(after.data.BlobIndex) = Len(before.data.BlobIndex)
       /\ \A i \in DOMAIN after.data.BlobIndex :
            /\ after.data.BlobIndex[i].type = before.data.BlobIndex[i].type
            /\ after.data.BlobIndex[i].blob = before.data.BlobIndex[i].blob
            /\ after.data.BlobIndex[i].offset = b + SumSeq(SubSeq(s, 1, i - 1))

UpdateOffsetsReturns == pc = "update_offsets" /\ pc' = "done"

\* C2 as stated: the cascading offsets, and a final superblob length of
\* sum(si) + header_size.
C2_AsStated ==
    [][UpdateOffsetsReturns =>
         /\ CascadeLaw(construct, construct')
         /\ construct'.length = SumSeq(EncodedSizes(construct')) + HeaderSize]_vars

\* C2 (amended): update_offsets keeps order and tags, assigns the offsets
\* b, b+s0, b+s0+s1, ..., and sets the superblob length to b + sum(si): the
\* declared length also covers the count and the index that precede blob 0.
C2_CascadingOffsets ==
    [][UpdateOffsetsReturns =>
         /\ CascadeLaw(construct, construct')
         /\ construct'.length = construct.data.BlobIndex[1].offset
                                  + SumSeq(EncodedSizes(construct'))]_vars

\* update_offsets returned after blob sizes changed, and moved an entry
C2_Witness ==
    /\ Returned
    /\ \E i \in DOMAIN construct.data.BlobIndex :
         /\ i > 1
         /\ construct.data.BlobIndex[i].offset # parsed.data.BlobIndex[i].offset
    /\ \E i \in DOMAIN construct.data.BlobIndex :
         construct.data.BlobIndex[i].blob.length
           # parsed.data.BlobIndex[i].blob.length

-----------------------------------------------------------------------------
\* the condition under which set_codedirectory is to fill `slot` of `cd`
ToBeFilled(cd, slot) ==
    /\ cd.data.nSpecialSlots + SlotOffset(slot) >= 0
    /\ slot \in bundle.fill_slots
    /\ (slot = "EntitlementsSlot" => ~signer.is_adhoc)

\* the digest of the content `slot` covers, as that content is in tree c
ContentDigest(c, slot, hash_type) ==
    CASE slot = "EntitlementsSlot" ->
           Digest(hash_type, BlobBuild(TheBlob(c, "CSMAGIC_ENTITLEMENT")))
      [] slot = "RequirementsSlot" ->
           Digest(hash_type, BlobBuild(TheBlob(c, "CSMAGIC_REQUIREMENTS")))
      [] slot = "ResourceDirSlot"  -> Digest(hash_type, bundle.seal)
      [] slot = "InfoSlot"         -> Digest(hash_type, bundle.info)
      [] slot = "ApplicationSlot"  ->
           Zeros(IF hash_type = SHA1_HASHTYPE THEN 20 ELSE 32)

\* C3: the passes run in the order that makes every digest cover final
\* bytes.  signer.sign is not called before the code directories are
\* rebuilt, and once resign has returned it was called exactly once, with one
\* digest record per code directory, each over the bytes that directory has
\* in the result; and every filled Requirements-slot and Entitlements-slot
\* digest is the digest of that blob as it is encoded in the result.
C3_DigestsCoverFinalBytes ==
    /\ pc \in {"set_entitlements", "set_requirements", "set_codedirectory",
               "set_signature"} => sign_calls = <<>>
    /\ Len(sign_calls) <= 1
    /\ Returned =>
         LET cds == get_codedirectories(construct)
         IN /\ Len(sign_calls) = 1
            /\ Len(sign_calls[1].hashes) = Cardinality(CDPositions)
            /\ \A k \in 1..Len(cds) :
                 LET cd == construct.data.BlobIndex[cds[k]].blob
                     rec == sign_calls[1].hashes[k]
                 IN /\ rec.sha1 = Digest(SHA1_HASHTYPE, BlobBuild(cd))
                    /\ rec.sha256 = Digest(SHA256_HASHTYPE, BlobBuild(cd))
                    /\ rec.hashType = cd.data.hashType
                    /\ cd.bytes = CodeDirectoryBuild(cd.data)
                    /\ \A slot \in {"RequirementsSlot", "EntitlementsSlot"} :
                         ToBeFilled(cd, slot) =>
                           cd.data.hashes[cd.data.nSpecialSlots
                                            + SlotOffset(slot) + 1]
                             = ContentDigest(construct, slot, cd.data.hashType)

\* resign returned after patching the requirements and replacing the
\* entitlements, with two code directories whose Entitlements and
\* Requirements slots were filled
C3_Witness ==
    /\ Returned
    /\ Cardinality(CDPositions) = 2
    /\ \A i \in CDPositions :
         /\ ToBeFilled(construct.data.BlobIndex[i].blob, "EntitlementsSlot")
         /\ construct.data.BlobIndex[i].blob.data.hashes
              # parsed.data.BlobIndex[i].blob.data.hashes
    /\ TheBlob(construct, "CSMAGIC_REQUIREMENTS")
         # TheBlob(parsed, "CSMAGIC_REQUIREMENTS")
    /\ TheBlob(construct, "CSMAGIC_ENTITLEMENT")
         # TheBlob(parsed, "CSMAGIC_ENTITLEMENT")

-----------------------------------------------------------------------------
\* the slots whose index in cd's hash array is j (0-based)
SlotsAtIndex(cd, j) ==
    {slot \in SlotClasses : cd.data.nSpecialSlots + SlotOffset(slot) = j}

\* C4: a slot is present iff nSpecialSlots + relative_offset >= 0 and is
\* hashed only if present and approved by should_fill_slot (so with
\* nSpecialSlots = 2 only Requirements and Info can be); a fill writes the
\* entry at index nSpecialSlots + relative_offset, every other entry of the
\* hash array keeps its value, and the array keeps its length.  Once
\* set_codedirectory has returned, every slot to be filled holds the digest
\* of its content.
C4_SlotFillPolicy ==
    /\ \A n \in DOMAIN hash_calls :
         LET cd == construct.data.BlobIndex[hash_calls[n].pos].blob
         IN /\ cd.data.nSpecialSlots + SlotOffset(hash_calls[n].slot) >= 0
            /\ hash_calls[n].slot \in bundle.fill_slots
            /\ cd.data.nSpecialSlots = 2 =>
                 hash_calls[n].slot \in {"RequirementsSlot", "InfoSlot"}
    /\ \A i \in CDPositions :
         LET cd  == construct.data.BlobIndex[i].blob
             old == parsed.data.BlobIndex[i].blob
         IN /\ Len(cd.data.hashes) = Len(old.data.hashes)
            /\ \A j \in 0..(Len(cd.data.hashes) - 1) :
                 /\ (\A slot \in SlotsAtIndex(cd, j) : ~ToBeFilled(cd, slot))
                      => cd.data.hashes[j + 1] = old.data.hashes[j + 1]
                 /\ DirectoriesRebuilt =>
                      \A slot \in SlotsAtIndex(cd, j) :
                        ToBeFilled(cd, slot) =>
                          cd.data.hashes[j + 1]
                            = ContentDigest(construct, slot, cd.data.hashType)

\* set_codedirectory returned on a directory with five special slots, all
\* approved: it hashed the four content slots anew and zeroed the
\* Application slot, and left the code-page slot alone
C4_Witness ==
    /\ DirectoriesRebuilt
    /\ \E i \in CDPositions :
         LET cd  == construct.data.BlobIndex[i].blob
             old == parsed.data.BlobIndex[i].blob
         IN /\ cd.data.nSpecialSlots = 5
            /\ \A slot \in SlotClasses : ToBeFilled(cd, slot)
            /\ \A j \in {1, 3, 4, 5} : cd.data.hashes[j] # old.data.hashes[j]
            /\ cd.data.hashes[2] = Zeros(cd.data.hashSize)
            /\ cd.data.hashes[6] = old.data.hashes[6]
            /\ \E n \in DOMAIN hash_calls :
                 hash_calls[n].slot = "EntitlementsSlot"

-----------------------------------------------------------------------------
\* the encoding of an empty requirement set: a count of 0 and nothing else
EmptyRequirementSet == IndexBuild([count |-> 0, BlobIndex |-> <<>>])

\* C5 as stated: with an ad-hoc signer, after resign the encoded
\* Requirements blob is the empty requirement set (count 0, minimal length,
\* no entries), the requirement literals are not patched, and no code
\* directory has its Entitlements slot filled.
C5_AsStated ==
    (Returned /\ signer.is_adhoc) =>
      LET req == TheBlob(construct, "CSMAGIC_REQUIREMENTS")
          old == TheBlob(parsed, "CSMAGIC_REQUIREMENTS")
      IN /\ BlobBuild(req).toks
              = <<MagicCode("CSMAGIC_REQUIREMENTS"),
                  HeaderSize + EmptyRequirementSet.len>>
                \o EmptyRequirementSet.toks
         /\ BlobBuild(req).len = HeaderSize + EmptyRequirementSet.len
         /\ \A k \in DOMAIN old.data.BlobIndex :
              req.data.BlobIndex[k].blob.data = old.data.BlobIndex[k].blob.data
         /\ \A n \in DOMAIN hash_calls :
              hash_calls[n].slot # "EntitlementsSlot"
         /\ \A i \in CDPositions :
              LET cd == construct.data.BlobIndex[i].blob
              IN cd.data.nSpecialSlots >= 5 =>
                   cd.data.hashes[cd.data.nSpecialSlots - 5 + 1]
                     = parsed.data.BlobIndex[i].blob.data.hashes[
                         cd.data.nSpecialSlots - 5 + 1]

-----------------------------------------------------------------------------
\* C6 as stated: with a non-ad-hoc signer, after set_requirements entry 0 of
\* the Requirements superblob records the length of its patched encoding,
\* every later entry's offset has moved by the change of that length, entry
\* 0's offset is unchanged, and the Requirements blob's length is its
\* encoded payload size plus 8 -- also when the bundle identifier changed but
\* there is no common-name literal.
C6_AsStated ==
    (RequirementsSet /\ ~signer.is_adhoc) =>
      LET req == TheBlob(construct, "CSMAGIC_REQUIREMENTS")
          old == TheBlob(parsed, "CSMAGIC_REQUIREMENTS")
          new_length == HeaderSize
                          + RequirementBuild(req.data.BlobIndex[1].blob.data).len
          delta == new_length - old.data.BlobIndex[1].blob.length
      IN /\ req.data.BlobIndex[1].blob.length = new_length
         /\ req.data.BlobIndex[1].offset = old.data.BlobIndex[1].offset
         /\ \A k \in DOMAIN req.data.BlobIndex :
              k > 1 => req.data.BlobIndex[k].offset
                         = old.data.BlobIndex[k].offset + delta
         /\ req.length = HeaderSize + IndexBuild(req.data).len

-----------------------------------------------------------------------------
\* C7: when the bundle reports a changed identifier, set_codedirectory gives
\* every code directory the new identifier and moves hashOffset, teamIDOffset
\* (set to offset_change if none was recorded) and the declared length by
\* offset_change = len(new identifier) - len(old identifier); when the
\* identifier is not changed, all four keep their values.
C7_IdentifierChange ==
    DirectoriesRebuilt =>
      \A i \in CDPositions :
        LET cd  == construct.data.BlobIndex[i].blob
            old == parsed.data.BlobIndex[i].blob
            offset_change == Len(bundle.changed_bundle_id) - Len(old.data.ident)
        IN IF bundle.changed_bundle_id # <<>>
           THEN /\ cd.data.ident = bundle.changed_bundle_id
                /\ cd.data.hashOffset = old.data.hashOffset + offset_change
                /\ cd.data.teamIDOffset =
                     IF old.data.teamIDOffset = NoOffset THEN offset_change
                     ELSE old.data.teamIDOffset + offset_change
                /\ cd.length = old.length + offset_change
           ELSE /\ cd.data.ident = old.data.ident
                /\ cd.data.hashOffset = old.data.hashOffset
                /\ cd.data.teamIDOffset = old.data.teamIDOffset
                /\ cd.length = old.length

\* set_codedirectory returned for "com.a" -> "com.a2": one directory with a
\* recorded team-id offset, grown by 1
C7_Witness ==
    /\ DirectoriesRebuilt
    /\ Len(bundle.changed_bundle_id) = Len(OldIdent) + 1
    /\ \E i \in CDPositions :
         LET cd  == construct.data.BlobIndex[i].blob
             old == parsed.data.BlobIndex[i].blob
         IN /\ old.data.teamIDOffset # NoOffset
            /\ cd.data.hashOffset = old.data.hashOffset + 1
            /\ cd.length = old.length + 1
            /\ cd.data.ident # old.data.ident

-----------------------------------------------------------------------------
\* C8 as stated: get_hash of each of the five slot variants fails (with the
\* unsupported-algorithm error) for every algorithm tag other than the two
\* supported ones, and resign on a signature with a code directory of such
\* a tag does not get past set_codedirectory nor write a digest into it.
C8_AsStated ==
    /\ \A n \in DOMAIN hash_calls :
         hash_calls[n].hash_type \notin SupportedHashTypes
           => hash_calls[n].raised = "ValueError"
    /\ \A i \in CDPositions :
         LET cd == construct.data.BlobIndex[i].blob
         IN (/\ cd.data.hashType \notin SupportedHashTypes
             /\ \E slot \in SlotClasses : ToBeFilled(cd, slot)) =>
              /\ ~DirectoriesRebuilt
              /\ cd.data.hashes = parsed.data.BlobIndex[i].blob.data.hashes
              /\ failed = "set_codedirectory" => err.type = "ValueError"

-----------------------------------------------------------------------------
\* number of top-level blobs of the input with a given magic
Occurrences(magic) == Cardinality(Positions(parsed, magic))

\* C9: get_blob returns the blob when exactly one top-level blob has the
\* tag, raises KeyError when none has, and raises MultipleEntriesException
\* carrying the number of occurrences when several have.  So resign gets
\* past set_requirements only with exactly one Requirements blob, and calls
\* signer.sign and gets past set_signature only with exactly one wrapper.
C9_SingularBlobs ==
    /\ \A magic \in {"CSMAGIC_REQUIREMENTS", "CSMAGIC_BLOBWRAPPER",
                     "CSMAGIC_ENTITLEMENT", "CSMAGIC_CODEDIRECTORY"} :
         LET r == get_blob(construct, magic)
             n == Cardinality(Positions(construct, magic))
         IN /\ n = 1 => /\ r.err = NoErr
                        /\ r.pos \in Positions(construct, magic)
            /\ n = 0 => r.err = [type |-> "KeyError", arg |-> 0]
            /\ n > 1 => r.err = [type |-> "MultipleEntriesException", arg |-> n]
    /\ Occurrences("CSMAGIC_REQUIREMENTS") # 1 =>
         /\ ~RequirementsSet
         /\ failed \in {"", "set_entitlements", "set_requirements"}
    /\ Occurrences("CSMAGIC_BLOBWRAPPER") # 1 =>
         /\ pc \notin {"update_offsets", "done"}
         /\ sign_calls = <<>>
    /\ failed = "set_requirements" /\ Occurrences("CSMAGIC_REQUIREMENTS") # 1 =>
         err = IF Occurrences("CSMAGIC_REQUIREMENTS") = 0
               THEN [type |-> "KeyError", arg |-> 0]
               ELSE [type |-> "MultipleEntriesException",
                     arg |-> Occurrences("CSMAGIC_REQUIREMENTS")]
    /\ failed = "set_signature" /\ Occurrences("CSMAGIC_BLOBWRAPPER") # 1 =>
         err = IF Occurrences("CSMAGIC_BLOBWRAPPER") = 0
               THEN [type |-> "KeyError", arg |-> 0]
               ELSE [type |-> "MultipleEntriesException",
                     arg |-> Occurrences("CSMAGIC_BLOBWRAPPER")]

\* resign aborted in set_signature on a signature with two wrapper blobs,
\* with the count 2 in the exception and without calling signer.sign
C9_Witness ==
    /\ pc = "aborted"
    /\ failed = "set_signature"
    /\ Occurrences("CSMAGIC_BLOBWRAPPER") = 2
    /\ err = [type |-> "MultipleEntriesException", arg |-> 2]
    /\ sign_calls = <<>>

-----------------------------------------------------------------------------
\* C10 as stated: with a non-ad-hoc signer and whatever the shape of the
\* Requirements superblob (no entries; a designated requirement without the
\* bundle-identifier literal, the common-name literal, or both),
\* set_requirements returns normally and leaves a literal it did not find
\* unmodified.
C10_AsStated ==
    (~signer.is_adhoc /\ Occurrences("CSMAGIC_REQUIREMENTS") = 1) =>
      /\ failed # "set_requirements"
      /\ RequirementsSet =>
           LET req == TheBlob(construct, "CSMAGIC_REQUIREMENTS")
               old == TheBlob(parsed, "CSMAGIC_REQUIREMENTS")
           IN \A k \in DOMAIN old.data.BlobIndex :
                LET d  == req.data.BlobIndex[k].blob.data
                    d0 == old.data.BlobIndex[k].blob.data
                IN /\ ~d0.hasIdent => d.identLit = d0.identLit
                   /\ ~d0.hasCN => d.cnLit = d0.cnLit

====
